---------------------------- MODULE Spec2Model ----------------------------
(***************************************************************************)
(* go-access-cache: a byte-bounded key/value cache that evicts the least   *)
(* recently viewed keys (src/accesscache/accesscache.go).                   *)
(*                                                                         *)
(* Spec   one caller: every Get and Set is one step (the whole handler).   *)
(* SpecC  several goroutines running populateCache of the test file, with  *)
(*        the mutex and every write of a handler as a step of its own.     *)
(*                                                                         *)
(* Sizes are far below 2^64 in every workload below, so the uint64 sums of *)
(* GetCacheSize never wrap and are written as plain sums.                  *)
(***************************************************************************)
EXTENDS Integers, Sequences, FiniteSets, TLC

VARIABLES
    cache,       \* c.cache: key -> value, a function on the keys present
    sizes,       \* c.sizes: key -> bytes, a function on the keys present
    lastviewed,  \* c.lastviewed: keys, oldest first
    maxsize,     \* c.maxsize
    ret,         \* the latest completed call of the single caller and its result
    touched,     \* the keys not evicted, in the order of their latest touch
    lastSet,     \* key not evicted -> the value of its latest successful Set
    scen,        \* calls of its script a scripted caller has made, -1: the free caller
    mux,         \* c.mux: the goroutine holding it, Unlocked when free
    pc,          \* goroutine -> its place in populateCache
    loc,         \* goroutine -> its local variables
    serial,      \* the structures had the calls run one at a time, in lock order
    seen,        \* what a caller of the accessors that take no lock was returned
    est          \* the call of sizeof under way: its argument, the frame of
                 \* sizeofInternal that runs, the bytes counted so far

vars == <<cache, sizes, lastviewed, maxsize, ret, touched, lastSet, scen,
          mux, pc, loc, serial, seen, est>>

-----------------------------------------------------------------------------
(* Values and their estimated size *)

IntVal(i) == [kind |-> "int", i |-> i, s |-> ""]
StrVal(s) == [kind |-> "string", i |-> 0, s |-> s]

\* reflect.Type.Size() of int on a 64-bit build
intSize == 8
\* reflect.StringHeader{} on a 64-bit build
stringSize == 16

isNativeType(k) == k \in {"int"}

\* reflect.Type.Size() of a pointer, and of a struct whose one field is a pointer
ptrSize == 8
\* reflect.Type.Size() of an interface value: type word and data word
ifaceSize == 16

typSize(val) ==
    CASE val.kind = "string" -> stringSize
      [] val.kind = "iface"  -> ifaceSize
      [] val.kind \in {"ptr", "struct"} -> ptrSize
      [] OTHER -> intSize

\* sizeofInternal without the string header: a string counted as its bytes only
sizeofInternal_noHeader(val, fromStruct, depth) ==
    IF val.kind = "string" THEN Len(val.s)
    ELSE IF fromStruct THEN 0 ELSE typSize(val)

\* The callers below pass int and string values only; neither kind recurses,
\* so depth never passes 1 and the depth guard is not reached.
sizeofInternal(val, fromStruct, depth) ==
    LET sz == IF fromStruct THEN 0 ELSE typSize(val)
    IN  IF val.kind = "string"
        THEN (IF fromStruct THEN sz ELSE stringSize) + Len(val.s)
        ELSE sz

sizeof(obj) == sizeofInternal(obj, FALSE, 0)

-----------------------------------------------------------------------------
(* The recency slice *)

\* 0-based index of the first occurrence, -1 when absent
indexOfLastViewed(lv, element) ==
    IF \E k \in 1..Len(lv) : lv[k] = element
    THEN (CHOOSE k \in 1..Len(lv) :
             lv[k] = element /\ \A j \in 1..(k - 1) : lv[j] # element) - 1
    ELSE -1

\* index is 0-based
removeLastViewedAtIndex(lv, index) ==
    SubSeq(lv, 1, index) \o SubSeq(lv, index + 2, Len(lv))

\* appendLastViewed that leaves a key it finds where it is
appendLastViewed_noMove(lv, key) ==
    IF indexOfLastViewed(lv, key) > -1 THEN lv ELSE lv \o <<key>>

\* appendLastViewed without the removal of the earlier occurrence
appendLastViewed_noRemove(lv, key) == lv \o <<key>>

appendLastViewed(lv, key) ==
    LET i == indexOfLastViewed(lv, key)
    IN  (IF i > -1 THEN removeLastViewedAtIndex(lv, i) ELSE lv) \o <<key>>

-----------------------------------------------------------------------------
(* Maps *)

MapSet(m, k, v) == (k :> v) @@ m
MapDelete(m, k) == [j \in DOMAIN m \ {k} |-> m[j]]
\* a Go map read: the zero value for a missing key
MapGet(m, k, zero) == IF k \in DOMAIN m THEN m[k] ELSE zero

RECURSIVE SumSizes(_, _)
SumSizes(ks, sz) ==
    IF ks = {} THEN 0
    ELSE LET k == CHOOSE x \in ks : TRUE
         IN  MapGet(sz, k, 0) + SumSizes(ks \ {k}, sz)

\* c is a record [cache, sizes, lastviewed]
GetCacheSize(c) == SumSizes(DOMAIN c.cache, c.sizes)

GetItemSizes(c) == c.sizes

Count(c) == Len(c.lastviewed)

\* GetLastViewedKey with "i <= 0" for "i < 0"
GetLastViewedKey_offByOne(c) ==
    IF Len(c.lastviewed) - 1 <= 0 THEN "" ELSE c.lastviewed[Len(c.lastviewed)]

GetLastViewedKey(c) ==
    IF Len(c.lastviewed) - 1 < 0 THEN "" ELSE c.lastviewed[Len(c.lastviewed)]

\* the loop body without delete(c.sizes, ...)
EvictOldest_keepSizes(c) ==
    [cache      |-> MapDelete(c.cache, c.lastviewed[1]),
     sizes      |-> c.sizes,
     lastviewed |-> removeLastViewedAtIndex(c.lastviewed, 0)]

\* the loop body with the newest key for the oldest
EvictOldest_newest(c) ==
    [cache      |-> MapDelete(c.cache, c.lastviewed[Len(c.lastviewed)]),
     sizes      |-> MapDelete(c.sizes, c.lastviewed[Len(c.lastviewed)]),
     lastviewed |-> removeLastViewedAtIndex(c.lastviewed, Len(c.lastviewed) - 1)]

\* the loop body that empties the slice
EvictOldest_clearOrder(c) ==
    [cache      |-> MapDelete(c.cache, c.lastviewed[1]),
     sizes      |-> MapDelete(c.sizes, c.lastviewed[1]),
     lastviewed |-> <<>>]

\* one pass of the loop body: drop the oldest key from all three structures
EvictOldest(c) ==
    [cache      |-> MapDelete(c.cache, c.lastviewed[1]),
     sizes      |-> MapDelete(c.sizes, c.lastviewed[1]),
     lastviewed |-> removeLastViewedAtIndex(c.lastviewed, 0)]

\* clearOutdatedItems with "if" for "for": at most one key goes
clearOutdatedItems_once(c, max) ==
    IF GetCacheSize(c) > max /\ Len(c.lastviewed) # 0 THEN EvictOldest(c) ELSE c

\* clearOutdatedItems with ">=" for ">" in the loop condition
RECURSIVE clearOutdatedItems_ge(_, _)
clearOutdatedItems_ge(c, max) ==
    IF GetCacheSize(c) >= max
    THEN IF Len(c.lastviewed) = 0 THEN c
         ELSE clearOutdatedItems_ge(EvictOldest(c), max)
    ELSE c

\* clearOutdatedItems that goes on while the size plus the oldest entry's size
\* is above the maximum
RECURSIVE clearOutdatedItems_eager(_, _)
clearOutdatedItems_eager(c, max) ==
    IF Len(c.lastviewed) = 0 THEN c
    ELSE IF GetCacheSize(c) + MapGet(c.sizes, c.lastviewed[1], 0) > max
         THEN clearOutdatedItems_eager(EvictOldest(c), max)
         ELSE c

RECURSIVE clearOutdatedItems(_, _)
clearOutdatedItems(c, max) ==
    IF GetCacheSize(c) > max
    THEN IF Len(c.lastviewed) = 0 THEN c
         ELSE clearOutdatedItems(EvictOldest(c), max)
    ELSE c

\* clearOutdatedItems leaves through "if len(c.lastviewed) == 0 { return }"
RECURSIVE ReturnsEarly(_, _)
ReturnsEarly(c, max) ==
    IF GetCacheSize(c) > max
    THEN IF Len(c.lastviewed) = 0 THEN TRUE
         ELSE ReturnsEarly(EvictOldest(c), max)
    ELSE FALSE

-----------------------------------------------------------------------------
(* The handlers, as functions of the three structures *)

NilVal == [kind |-> "nil", i |-> 0, s |-> ""]

Structures == [cache |-> cache, sizes |-> sizes, lastviewed |-> lastviewed]

\* Set with ">" for ">=" in the size check
SetBody_gt(c, max, key, value) ==
    LET size == sizeof(value)
        c1   == [cache      |-> MapSet(c.cache, key, value),
                 sizes      |-> MapSet(c.sizes, key, size),
                 lastviewed |-> appendLastViewed(c.lastviewed, key)]
        c2   == clearOutdatedItems(c1, max)
    IN  IF size > max
        THEN [err |-> TRUE, c |-> c, evicted |-> <<>>, early |-> FALSE]
        ELSE [err |-> FALSE, c |-> c2, early |-> ReturnsEarly(c1, max),
              evicted |-> SubSeq(c1.lastviewed, 1,
                                 Len(c1.lastviewed) - Len(c2.lastviewed))]

\* Set up to its return: the size check, then promotion, the two stores and the
\* eviction pass. evicted lists the keys the pass removed, oldest first.
SetBody(c, max, key, value) ==
    LET size == sizeof(value)
        c1   == [cache      |-> MapSet(c.cache, key, value),
                 sizes      |-> MapSet(c.sizes, key, size),
                 lastviewed |-> appendLastViewed(c.lastviewed, key)]
        c2   == clearOutdatedItems(c1, max)
    IN  IF size >= max
        THEN [err |-> TRUE, c |-> c, evicted |-> <<>>, early |-> FALSE]
        ELSE [err |-> FALSE, c |-> c2, early |-> ReturnsEarly(c1, max),
              evicted |-> SubSeq(c1.lastviewed, 1,
                                 Len(c1.lastviewed) - Len(c2.lastviewed))]

\* Get that updates last viewed without looking at ok
GetBody_promoteOnMiss(c, key) ==
    [value |-> MapGet(c.cache, key, NilVal),
     ok    |-> key \in DOMAIN c.cache,
     c     |-> [c EXCEPT !.lastviewed = appendLastViewed(c.lastviewed, key)]]

\* Get that never updates last viewed
GetBody_noPromote(c, key) ==
    [value |-> MapGet(c.cache, key, NilVal),
     ok    |-> key \in DOMAIN c.cache,
     c     |-> c]

\* Get up to its return: the lookup and, on a hit, the promotion
GetBody(c, key) ==
    LET ok == key \in DOMAIN c.cache
    IN  [value |-> MapGet(c.cache, key, NilVal),
         ok    |-> ok,
         c     |-> IF ok
                   THEN [c EXCEPT !.lastviewed = appendLastViewed(c.lastviewed, key)]
                   ELSE c]

-----------------------------------------------------------------------------
(* The callers: the capacities they construct and the calls they make *)

\* number of keys the free caller uses
NumKeys == 3

KeyNames == <<"a", "b", "c", "d", "e", "f", "g">>
Keys == {KeyNames[i] : i \in 1..NumKeys}
Values == {IntVal(1), IntVal(1024), StrVal(""), StrVal("a"), StrVal("abcdefgh")}

\* NewAccessCache(24) of TestSizeAllocation
sizeAllocationCap == 24
\* NewAccessCache(40) of TestReadWriteCacheAndOrder
orderCap == 40
\* NewAccessCache(60) of main
readmeCap == 60
\* NewAccessCache(500) of TestEmptyCache
emptyCap == 500

SetCall(k, v) == [op |-> "Set", key |-> k, val |-> v]
GetCall(k) == [op |-> "Get", key |-> k, val |-> NilVal]
\* the unexported clearOutdatedItems, which only the package's tests can call
ClearCall == [op |-> "clearOutdatedItems", key |-> "", val |-> NilVal]

TestReadWriteCacheAndOrder ==
    <<SetCall("a", IntVal(1)), SetCall("b", IntVal(2)), SetCall("c", IntVal(3)),
      GetCall("a"),
      SetCall("d", IntVal(4)), SetCall("e", IntVal(5)), SetCall("f", IntVal(6)),
      SetCall("g", IntVal(7))>>

main ==
    <<SetCall("key-a", StrVal("first string")),
      SetCall("key-b", StrVal("second string")),
      GetCall("key-a"),
      SetCall("key-c", StrVal("third string")),
      GetCall("key-a")>>

TestEmptyCache == <<ClearCall>>

Script(max) ==
    IF max = orderCap THEN TestReadWriteCacheAndOrder
    ELSE IF max = readmeCap THEN main
    ELSE IF max = emptyCap THEN TestEmptyCache
    ELSE <<>>

ScriptCalls == {TestReadWriteCacheAndOrder[i] : i \in 1..Len(TestReadWriteCacheAndOrder)}
                   \cup {main[i] : i \in 1..Len(main)}

\* every key and value some caller passes
AllKeys == Keys \cup {c.key : c \in ScriptCalls}
AllValues == Values \cup {c.val : c \in {d \in ScriptCalls : d.op = "Set"}}

\* The free caller (scen = -1) makes any call on Keys and Values, in any order;
\* a scripted caller makes the calls of its test or program, in their order.
MayCall(call) ==
    IF scen = -1
    THEN call.key \in Keys /\ (call.op = "Set" => call.val \in Values)
    ELSE scen < Len(Script(maxsize)) /\ Script(maxsize)[scen + 1] = call

ScenNext == IF scen = -1 THEN -1 ELSE scen + 1

-----------------------------------------------------------------------------
(* One caller *)

Touch(seq, k) == SelectSeq(seq, LAMBDA x : x # k) \o <<k>>
Without(seq, ks) == SelectSeq(seq, LAMBDA x : x \notin ks)
Range(seq) == {seq[i] : i \in 1..Len(seq)}
Restrict(f, ks) == [k \in DOMAIN f \cap ks |-> f[k]]

\* had: the key was in c.cache when the call began
NoCall == [op |-> "none", key |-> "", val |-> NilVal, err |-> FALSE, had |-> FALSE,
           found |-> FALSE, value |-> NilVal, evicted |-> <<>>, early |-> FALSE]

\* the zero value of sync.Mutex
Unlocked == -1

\* sizeof not called
NoEstimate == [obj |-> NilVal, val |-> NilVal, fromStruct |-> FALSE, depth |-> 0,
               sz |-> 0, status |-> "idle"]

\* no accessor called yet; -1 stands for "not called"
NotSeen == [size |-> -1, count |-> -1, items |-> -1, fatal |-> FALSE]

\* NewAccessCache(size): size > 0, empty maps, empty slice
NewAccessCache(size) ==
    /\ size > 0
    /\ maxsize = size
    /\ cache = <<>>
    /\ sizes = <<>>
    /\ lastviewed = <<>>

Init ==
    /\ \/ scen = -1 /\ \E size \in {sizeAllocationCap, orderCap} : NewAccessCache(size)
       \/ scen = 0 /\ \E size \in {orderCap, readmeCap, emptyCap} : NewAccessCache(size)
    /\ ret = NoCall
    /\ touched = <<>>
    /\ lastSet = <<>>
    /\ mux = Unlocked
    /\ pc = <<>>
    /\ loc = <<>>
    /\ serial = Structures
    /\ seen = NotSeen
    /\ est = NoEstimate

Set(key, value) ==
    LET r    == SetBody(Structures, maxsize, key, value)
        gone == (DOMAIN cache \cup {key}) \ DOMAIN r.c.cache
    IN  /\ MayCall(SetCall(key, value))
        /\ cache' = r.c.cache
        /\ sizes' = r.c.sizes
        /\ lastviewed' = r.c.lastviewed
        /\ ret' = [op |-> "Set", key |-> key, val |-> value, err |-> r.err,
                   had |-> key \in DOMAIN cache, found |-> FALSE, value |-> NilVal,
                   evicted |-> r.evicted, early |-> r.early]
        /\ touched' = IF r.err THEN touched ELSE Without(Touch(touched, key), gone)
        /\ lastSet' = IF r.err THEN lastSet
                      ELSE Restrict(MapSet(lastSet, key, value),
                                    (DOMAIN lastSet \cup {key}) \ gone)
        /\ scen' = ScenNext
        /\ UNCHANGED <<maxsize, mux, pc, loc, serial, seen, est>>

Get(key) ==
    LET r == GetBody(Structures, key)
    IN  /\ MayCall(GetCall(key))
        /\ cache' = r.c.cache
        /\ sizes' = r.c.sizes
        /\ lastviewed' = r.c.lastviewed
        /\ ret' = [op |-> "Get", key |-> key, val |-> NilVal, err |-> FALSE,
                   had |-> key \in DOMAIN cache, found |-> r.ok, value |-> r.value,
                   evicted |-> <<>>, early |-> FALSE]
        /\ touched' = IF r.ok THEN Touch(touched, key) ELSE touched
        /\ scen' = ScenNext
        /\ UNCHANGED <<maxsize, lastSet, mux, pc, loc, serial, seen, est>>

\* m.clearOutdatedItems() called on its own, as TestEmptyCache does
ClearOutdated ==
    LET c == clearOutdatedItems(Structures, maxsize)
    IN  /\ MayCall(ClearCall)
        /\ cache' = c.cache
        /\ sizes' = c.sizes
        /\ lastviewed' = c.lastviewed
        /\ ret' = [NoCall EXCEPT !.op = "clearOutdatedItems",
                                 !.early = ReturnsEarly(Structures, maxsize),
                                 !.evicted = SubSeq(lastviewed, 1,
                                                    Len(lastviewed) - Len(c.lastviewed))]
        /\ touched' = Without(touched, DOMAIN cache \ DOMAIN c.cache)
        /\ lastSet' = Restrict(lastSet, DOMAIN c.cache)
        /\ scen' = ScenNext
        /\ UNCHANGED <<maxsize, mux, pc, loc, serial, seen, est>>

Next ==
    \/ \E k \in AllKeys, v \in AllValues : Set(k, v)
    \/ \E k \in AllKeys : Get(k)
    \/ ClearOutdated

Spec == Init /\ [][Next]_vars

-----------------------------------------------------------------------------
(* Properties of one caller's cache (Spec) *)

NoDuplicates(seq) == \A i, j \in 1..Len(seq) : seq[i] = seq[j] => i = j
IndexIn(seq, k) == CHOOSE i \in 1..Len(seq) : seq[i] = k
Earlier(seq, j, k) ==
    /\ j \in Range(seq)
    /\ k \in Range(seq)
    /\ IndexIn(seq, j) < IndexIn(seq, k)
Evicting == ret.op = "Set" /\ ~ret.err /\ ret.evicted # <<>>

\* C1: after every completed Get or Set the cache size, the sum of the stored
\* per-key sizes, is at most maxsize.
SizeWithinCapacity ==
    /\ GetCacheSize(Structures) <= maxsize
    /\ SumSizes(DOMAIN sizes, sizes) <= maxsize

\* a Set that had to evict more than one key to get back under maxsize
SizeWithinCapacityWitness == Evicting /\ Len(ret.evicted) >= 2

\* C2: after every completed Get or Set the keys of c.cache, the keys of c.sizes
\* and the keys in c.lastviewed are the same set, and c.lastviewed holds no key
\* twice.
KeySetsAgree ==
    /\ DOMAIN cache = DOMAIN sizes
    /\ DOMAIN cache = Range(lastviewed)
    /\ NoDuplicates(lastviewed)

\* a Set that overwrote a cached key and evicted another one
KeySetsAgreeWitness == Evicting /\ ret.had /\ Len(lastviewed) >= 2

\* C3: a Set whose value has estimated size >= maxsize returns an error and
\* leaves c.cache, c.sizes and c.lastviewed (so Count() too) as they were.
RejectedSetChangesNothing ==
    [][(ret'.op = "Set" /\ sizeof(ret'.val) >= maxsize)
          => (ret'.err /\ UNCHANGED <<cache, sizes, lastviewed>>)]_vars

\* a rejected Set of a cached key with a value of exactly maxsize bytes
RejectedSetWitness ==
    /\ ret.op = "Set" /\ ret.err /\ ret.had
    /\ sizeof(ret.val) = maxsize
    /\ ret.key \in DOMAIN cache

\* C4: every key a Set evicts was last touched (successful Set or Get hit)
\* before every key that is still cached after the Set.
EvictsLeastRecentlyTouched ==
    [][(ret'.op = "Set" /\ ~ret'.err)
          => \A e \in (DOMAIN cache \cup {ret'.key}) \ DOMAIN cache' :
                \A k \in DOMAIN cache' : Earlier(Touch(touched, ret'.key), e, k)]_vars

\* a Set of a new key that evicted one key and kept another beside its own
EvictsLeastRecentlyTouchedWitness ==
    Evicting /\ ~ret.had /\ Len(ret.evicted) = 1 /\ Len(lastviewed) >= 2

\* C5: Get(k) finds k exactly when k was set and not evicted since, then with
\* the value of the latest successful Set(k, .); a Get that does not find k
\* leaves c.cache, c.sizes and c.lastviewed as they were.
GetReturnsLatestValue ==
    [][ret'.op = "Get"
          => /\ ret'.found <=> ret'.key \in DOMAIN lastSet
             /\ ret'.found => ret'.value = lastSet[ret'.key]
             /\ ~ret'.found => UNCHANGED <<cache, sizes, lastviewed>>]_vars

\* a Get that missed on a cache holding other keys
GetReturnsLatestValueWitness ==
    ret.op = "Get" /\ ~ret.found /\ Len(lastviewed) >= 2

\* C6: right after Get(k) returned found = true, GetLastViewedKey() is k.
GetPromotes ==
    (ret.op = "Get" /\ ret.found) => GetLastViewedKey(Structures) = ret.key

\* a Get hit on a cache of three keys or more
GetPromotesWitness == ret.op = "Get" /\ ret.found /\ Len(lastviewed) >= 3

\* C8 as stated: a successful Set of a key that is already cached leaves
\* Count() as it was, leaves no duplicate of the key in c.lastviewed and makes
\* c.sizes[key] the size of the new value.
OverwriteKeepsCount ==
    [][(ret'.op = "Set" /\ ~ret'.err /\ ret'.had)
          => /\ Count(Structures') = Count(Structures)
             /\ NoDuplicates(lastviewed')
             /\ sizes'[ret'.key] = sizeof(ret'.val)]_vars

\* C8, amended: a successful Set of a key that is already cached leaves no
\* duplicate of the key in c.lastviewed and makes c.sizes[key] the size of the
\* new value; Count() drops by the number of keys the Set evicts, so it is
\* unchanged exactly when the overwrite evicts nothing.
OverwriteKeepsCountUnlessEvicting ==
    [][(ret'.op = "Set" /\ ~ret'.err /\ ret'.had)
          => /\ Count(Structures') = Count(Structures) - Len(ret'.evicted)
             /\ Cardinality(DOMAIN cache') =
                   Cardinality(DOMAIN cache) - Len(ret'.evicted)
             /\ NoDuplicates(lastviewed')
             /\ sizes'[ret'.key] = sizeof(ret'.val)]_vars

\* an overwrite with a larger value that evicted another key
OverwriteWitness ==
    Evicting /\ ret.had /\ sizes[ret.key] > intSize

\* C9: TestReadWriteCacheAndOrder, capacity 40 and every value 8 bytes.
OrderScenario ==
    (maxsize = orderCap /\ scen >= 0) =>
        /\ \A k \in DOMAIN sizes : sizes[k] = 8
        /\ scen = 3 => lastviewed = <<"a", "b", "c">>
        /\ scen = 4 => /\ lastviewed = <<"b", "c", "a">>
                       /\ ret.found /\ ret.value = IntVal(1)
        /\ scen = 6 => /\ Count(Structures) = 5
                       /\ DOMAIN cache = {"a", "b", "c", "d", "e"}
        /\ scen = 7 => /\ ret.evicted = <<"b">>
                       /\ DOMAIN cache = {"a", "c", "d", "e", "f"}
                       /\ Count(Structures) = 5
                       /\ GetLastViewedKey(Structures) = "f"
        /\ scen = 8 => /\ Len(ret.evicted) = 1
                       /\ Count(Structures) = 5
                       /\ GetLastViewedKey(Structures) = "g"
                       /\ GetCacheSize(Structures) = 40

\* the test has run to its end
OrderScenarioWitness == maxsize = orderCap /\ scen = Len(TestReadWriteCacheAndOrder)

EmptyCache ==
    /\ Count(Structures) = 0
    /\ GetCacheSize(Structures) = 0
    /\ GetLastViewedKey(Structures) = ""
    /\ GetItemSizes(Structures) = <<>>

\* C11: a cache fresh from NewAccessCache has Count() 0, cache size 0, last
\* viewed key "" and no item sizes; clearOutdatedItems on it changes nothing;
\* on a cache that holds keys GetLastViewedKey() is the tail of c.lastviewed.
FreshCacheIsEmpty ==
    /\ ret.op = "none" => EmptyCache /\ cache = <<>>
    /\ (maxsize = emptyCap /\ ret.op = "clearOutdatedItems")
          => EmptyCache /\ cache = <<>> /\ ret.evicted = <<>>
    /\ lastviewed # <<>> => GetLastViewedKey(Structures) = lastviewed[Len(lastviewed)]

\* TestEmptyCache has run clearOutdatedItems on its fresh cache
FreshCacheIsEmptyWitness == maxsize = emptyCap /\ ret.op = "clearOutdatedItems"

-----------------------------------------------------------------------------
(* Several goroutines on one cache (SpecC): TestConcurrency starts goroutines  *)
(* 0, 1, ..., each running populateCache(i): Set(Itoa(i), value), then         *)
(* Get(k) for the key k of the last goroutine and, when that found k,         *)
(* GetLastViewedKey(). Every statement that reads or writes the cache is a    *)
(* step; sync.Mutex lets one goroutine at a time pass Lock().                  *)

\* number of goroutines
NumThreads == 2

Goroutines == 0..(NumThreads - 1)
Itoa(i) == <<"0", "1", "2", "3", "4", "5", "6", "7", "8", "9">>[i + 1]
\* the key every goroutine asks for: "9" in the test, the last goroutine's key
WatchedKey == Itoa(NumThreads - 1)
\* the values the goroutines store: with capacity 24 two of them fit, or one
\* only, or the value is refused
ConcValues == {IntVal(1), StrVal(""), StrVal("abcdefgh")}

InitC ==
    /\ NewAccessCache(sizeAllocationCap)
    /\ ret = NoCall
    /\ touched = <<>>
    /\ lastSet = <<>>
    /\ scen = -1
    /\ mux = Unlocked
    /\ pc = [t \in Goroutines |-> "Set"]
    /\ loc \in [Goroutines -> [value : ConcValues, size : {0}, ok : {FALSE},
                               got : {NilVal}, last : {""}]]
    /\ serial = Structures
    /\ seen = NotSeen
    /\ est = NoEstimate

Ghosts == <<ret, touched, lastSet, scen>>
\* a goroutine moves on as long as no fatal error has ended the process
Goto(t, label) == ~seen.fatal /\ pc' = [pc EXCEPT ![t] = label]

\* Set: size := sizeof(value); a size >= maxsize returns the error, lock not taken
SetCheck(t) ==
    /\ pc[t] = "Set"
    /\ loc' = [loc EXCEPT ![t].size = sizeof(loc[t].value)]
    /\ IF sizeof(loc[t].value) >= maxsize THEN Goto(t, "Get") ELSE Goto(t, "SetLock")
    /\ UNCHANGED <<cache, sizes, lastviewed, maxsize, mux, Ghosts, serial, seen, est>>

\* Lock() that does not wait for the mutex to be free
SetLock_noWait(t) ==
    /\ pc[t] = "SetLock"
    /\ mux' = t
    /\ Goto(t, "SetAppend")
    /\ serial' = SetBody(serial, maxsize, Itoa(t), loc[t].value).c
    /\ UNCHANGED <<cache, sizes, lastviewed, maxsize, loc, Ghosts, seen, est>>

\* Set: c.mux.Lock() blocks until the mutex is free
SetLock(t) ==
    /\ pc[t] = "SetLock"
    /\ mux = Unlocked
    /\ mux' = t
    /\ Goto(t, "SetAppend")
    /\ serial' = SetBody(serial, maxsize, Itoa(t), loc[t].value).c
    /\ UNCHANGED <<cache, sizes, lastviewed, maxsize, loc, Ghosts, seen, est>>

\* c.appendLastViewed(key)
SetAppend(t) ==
    /\ pc[t] = "SetAppend"
    /\ lastviewed' = appendLastViewed(lastviewed, Itoa(t))
    /\ Goto(t, "SetCache")
    /\ UNCHANGED <<cache, sizes, maxsize, mux, loc, Ghosts, serial, seen, est>>

\* c.cache[key] = value
SetCache(t) ==
    /\ pc[t] = "SetCache"
    /\ cache' = MapSet(cache, Itoa(t), loc[t].value)
    /\ Goto(t, "SetSizes")
    /\ UNCHANGED <<sizes, lastviewed, maxsize, mux, loc, Ghosts, serial, seen, est>>

\* c.sizes[key] = size
SetSizes(t) ==
    /\ pc[t] = "SetSizes"
    /\ sizes' = MapSet(sizes, Itoa(t), loc[t].size)
    /\ Goto(t, "Clear")
    /\ UNCHANGED <<cache, lastviewed, maxsize, mux, loc, Ghosts, serial, seen, est>>

\* clearOutdatedItems: the loop condition and the check for an empty slice
ClearTest(t) ==
    /\ pc[t] = "Clear"
    /\ IF GetCacheSize(Structures) > maxsize /\ Len(lastviewed) # 0
       THEN Goto(t, "ClearCache")
       ELSE Goto(t, "SetUnlock")
    /\ UNCHANGED <<cache, sizes, lastviewed, maxsize, mux, loc, Ghosts, serial, seen, est>>

\* delete(c.cache, c.lastviewed[0])
ClearCache(t) ==
    /\ pc[t] = "ClearCache"
    /\ cache' = MapDelete(cache, lastviewed[1])
    /\ Goto(t, "ClearSizes")
    /\ UNCHANGED <<sizes, lastviewed, maxsize, mux, loc, Ghosts, serial, seen, est>>

\* delete(c.sizes, c.lastviewed[0])
ClearSizes(t) ==
    /\ pc[t] = "ClearSizes"
    /\ sizes' = MapDelete(sizes, lastviewed[1])
    /\ Goto(t, "ClearOrder")
    /\ UNCHANGED <<cache, lastviewed, maxsize, mux, loc, Ghosts, serial, seen, est>>

\* c.removeLastViewedAtIndex(0), then back to the loop condition
ClearOrder(t) ==
    /\ pc[t] = "ClearOrder"
    /\ lastviewed' = removeLastViewedAtIndex(lastviewed, 0)
    /\ Goto(t, "Clear")
    /\ UNCHANGED <<cache, sizes, maxsize, mux, loc, Ghosts, serial, seen, est>>

\* Set that returns without the deferred Unlock()
SetUnlock_keepLock(t) ==
    /\ pc[t] = "SetUnlock"
    /\ mux = t
    /\ Goto(t, "Get")
    /\ UNCHANGED <<cache, sizes, lastviewed, maxsize, mux, loc, Ghosts, serial, seen, est>>

\* Set: the deferred c.mux.Unlock() and return nil
SetUnlock(t) ==
    /\ pc[t] = "SetUnlock"
    /\ mux = t
    /\ mux' = Unlocked
    /\ Goto(t, "Get")
    /\ UNCHANGED <<cache, sizes, lastviewed, maxsize, loc, Ghosts, serial, seen, est>>

\* Get with a Lock() that does not wait for the mutex to be free
GetLock_noWait(t) ==
    /\ pc[t] = "Get"
    /\ mux' = t
    /\ Goto(t, "GetLookup")
    /\ serial' = GetBody(serial, WatchedKey).c
    /\ UNCHANGED <<cache, sizes, lastviewed, maxsize, loc, Ghosts, seen, est>>

\* Get: c.mux.Lock()
GetLock(t) ==
    /\ pc[t] = "Get"
    /\ mux = Unlocked
    /\ mux' = t
    /\ Goto(t, "GetLookup")
    /\ serial' = GetBody(serial, WatchedKey).c
    /\ UNCHANGED <<cache, sizes, lastviewed, maxsize, loc, Ghosts, seen, est>>

\* value, ok := c.cache[key]
GetLookup(t) ==
    /\ pc[t] = "GetLookup"
    /\ loc' = [loc EXCEPT ![t].ok = WatchedKey \in DOMAIN cache,
                          ![t].got = MapGet(cache, WatchedKey, NilVal)]
    /\ IF WatchedKey \in DOMAIN cache THEN Goto(t, "GetAppend") ELSE Goto(t, "GetUnlock")
    /\ UNCHANGED <<cache, sizes, lastviewed, maxsize, mux, Ghosts, serial, seen, est>>

\* if ok { c.appendLastViewed(key) }
GetAppend(t) ==
    /\ pc[t] = "GetAppend"
    /\ lastviewed' = appendLastViewed(lastviewed, WatchedKey)
    /\ Goto(t, "GetUnlock")
    /\ UNCHANGED <<cache, sizes, maxsize, mux, loc, Ghosts, serial, seen, est>>

\* Get returns; populateCache goes on to GetLastViewedKey only when ok
GetUnlock(t) ==
    /\ pc[t] = "GetUnlock"
    /\ mux = t
    /\ mux' = Unlocked
    /\ IF loc[t].ok THEN Goto(t, "Last") ELSE Goto(t, "done")
    /\ UNCHANGED <<cache, sizes, lastviewed, maxsize, loc, Ghosts, serial, seen, est>>

\* GetLastViewedKey with a Lock() that does not wait for the mutex to be free
LastLock_noWait(t) ==
    /\ pc[t] = "Last"
    /\ mux' = t
    /\ Goto(t, "LastRead")
    /\ UNCHANGED <<cache, sizes, lastviewed, maxsize, loc, Ghosts, serial, seen, est>>

\* GetLastViewedKey: c.mux.Lock()
LastLock(t) ==
    /\ pc[t] = "Last"
    /\ mux = Unlocked
    /\ mux' = t
    /\ Goto(t, "LastRead")
    /\ UNCHANGED <<cache, sizes, lastviewed, maxsize, loc, Ghosts, serial, seen, est>>

\* GetLastViewedKey reads the tail of c.lastviewed
LastRead(t) ==
    /\ pc[t] = "LastRead"
    /\ loc' = [loc EXCEPT ![t].last = GetLastViewedKey(Structures)]
    /\ Goto(t, "LastUnlock")
    /\ UNCHANGED <<cache, sizes, lastviewed, maxsize, mux, Ghosts, serial, seen, est>>

\* GetLastViewedKey returns; populateCache compares the key with "9"
LastUnlock(t) ==
    /\ pc[t] = "LastUnlock"
    /\ mux = t
    /\ mux' = Unlocked
    /\ Goto(t, "asserted")
    /\ UNCHANGED <<cache, sizes, lastviewed, maxsize, loc, Ghosts, serial, seen, est>>

\* the next statement of goroutine t
populateCache(t) ==
    \/ SetCheck(t) \/ SetLock(t) \/ SetAppend(t) \/ SetCache(t) \/ SetSizes(t)
    \/ ClearTest(t) \/ ClearCache(t) \/ ClearSizes(t) \/ ClearOrder(t)
    \/ SetUnlock(t)
    \/ GetLock(t) \/ GetLookup(t) \/ GetAppend(t) \/ GetUnlock(t)
    \/ LastLock(t) \/ LastRead(t) \/ LastUnlock(t)

NextC == \E t \in Goroutines : populateCache(t)

SpecC == InitC /\ [][NextC]_vars

-----------------------------------------------------------------------------
(* The goroutines and one more caller that uses the accessors without a lock *)

\* as in TestConcurrency, every goroutine stores a value of the same size; two
\* of them exceed the capacity
InitR ==
    /\ InitC
    /\ \A t \in Goroutines : loc[t].value = StrVal("")

\* the places where a goroutine is about to write c.cache or c.sizes
MapWrites == {"SetCache", "SetSizes", "ClearCache", "ClearSizes"}

\* GetCacheSize() called once, no lock taken: it ranges over c.cache and reads
\* c.sizes; when this overlaps with a write to one of the maps, the runtime may
\* stop the process ("concurrent map iteration and map write") or let the read
\* through
ReadSize ==
    /\ seen.size = -1 /\ ~seen.fatal
    /\ \/ seen' = [seen EXCEPT !.size = GetCacheSize(Structures)]
       \/ /\ \E t \in Goroutines : pc[t] \in MapWrites
          /\ seen' = [seen EXCEPT !.fatal = TRUE]
    /\ UNCHANGED <<cache, sizes, lastviewed, maxsize, mux, pc, loc, Ghosts, serial, est>>

\* Count() and len(GetItemSizes()) called once, no lock taken
ReadCount ==
    /\ seen.count = -1 /\ ~seen.fatal
    /\ seen' = [seen EXCEPT !.count = Count(Structures),
                            !.items = Cardinality(DOMAIN GetItemSizes(Structures))]
    /\ UNCHANGED <<cache, sizes, lastviewed, maxsize, mux, pc, loc, Ghosts, serial, est>>

NextR == NextC \/ ReadSize \/ ReadCount

SpecR == InitR /\ [][NextR]_vars

\* the Go scheduler runs every goroutine that stays runnable
SpecCFair == SpecC /\ \A t \in Goroutines : WF_vars(populateCache(t))

\* C7: in populateCache, whenever Get(k) found k, the GetLastViewedKey() call
\* that follows returns k.
WatchedKeyIsLastViewed ==
    \A t \in Goroutines :
        (pc[t] = "asserted" /\ loc[t].ok) => loc[t].last = WatchedKey

-----------------------------------------------------------------------------
(* Properties of the goroutines' cache (SpecC) *)

\* the statements of Set and Get between Lock() and the deferred Unlock()
LockedStatements ==
    {"SetAppend", "SetCache", "SetSizes", "Clear", "ClearCache", "ClearSizes",
     "ClearOrder", "GetLookup", "GetAppend"}
\* the places of a goroutine that has passed Lock() in Set or Get
Inside == LockedStatements \cup {"SetUnlock", "GetUnlock"}
\* goroutine t executes a statement at one of the places
Runs(t, places) == pc[t] \in places /\ pc'[t] # pc[t]
OneInside ==
    \A t, u \in Goroutines : (pc[t] \in Inside /\ pc[u] \in Inside) => t = u

\* C12 as stated: the size check, promotion, store and eviction of Set and the
\* lookup and promotion of Get are all executed by a goroutine that holds the
\* mutex, and no two goroutines are inside these bodies at once.
HoldsLockForWholeBody ==
    [][/\ \A t \in Goroutines : Runs(t, LockedStatements \cup {"Set"}) => mux = t
       /\ OneInside']_vars

\* C12, amended: promotion, store and eviction of Set and the lookup and
\* promotion of Get are executed by a goroutine that holds the mutex, and no
\* two goroutines are inside these bodies at once; the size estimate and the
\* size check of Set run before Lock(), without the mutex.
HoldsLockAfterSizeCheck ==
    [][/\ \A t \in Goroutines : Runs(t, LockedStatements) => mux = t
       /\ \A t \in Goroutines : Runs(t, {"Set"}) => mux # t
       /\ OneInside']_vars

\* one goroutine is evicting inside Set while another waits at Lock()
HoldsLockWitness ==
    \E t, u \in Goroutines :
        pc[t] = "ClearOrder" /\ pc[u] \in {"SetLock", "Get"}

Final == {"asserted", "done"}

\* C13: whenever the mutex is free, the entries map, the size table and the
\* recency order equal what the same Get and Set calls produce when run one at
\* a time in the order in which they acquired the mutex.
LockFreeStateIsSerial == mux = Unlocked => Structures = serial

\* every goroutine has returned, and the accepted key of one of them was
\* evicted by a later Set
LockFreeStateIsSerialWitness ==
    /\ mux = Unlocked
    /\ \A t \in Goroutines : pc[t] \in Final
    /\ \E t \in Goroutines :
          /\ loc[t].size > 0 /\ loc[t].size < maxsize
          /\ Itoa(t) \notin DOMAIN cache
    /\ cache # <<>>

\* the places of a goroutine that holds the mutex
Holding == Inside \cup {"LastRead", "LastUnlock"}

\* C14: under fair scheduling every call of every goroutine returns (so the
\* eviction loop ends and no goroutine waits for the mutex forever), and the
\* mutex is free whenever no goroutine is inside a call, after every exit path.
EveryCallReturns ==
    /\ \A t \in Goroutines : <>(pc[t] \in Final)
    /\ [](  (\A t \in Goroutines : pc[t] \notin Holding) => mux = Unlocked)
    /\ <>[](mux = Unlocked)

\* all goroutines are through: one Set was refused, one Get missed, one Get hit
EveryCallReturnsWitness ==
    /\ mux = Unlocked
    /\ \A t \in Goroutines : pc[t] \in Final
    /\ \E t \in Goroutines : loc[t].size >= maxsize
    /\ \E t \in Goroutines : pc[t] = "done"
    /\ \E t \in Goroutines : pc[t] = "asserted"

\* the call that leads from the answers before to the answers after returned
\* what is not a state between two completed operations
MidMutation(before, after) ==
    \/ after.size # before.size /\ after.size > maxsize
    \/ after.count # before.count /\ after.count # after.items
    \/ after.fatal /\ ~before.fatal

\* C15: Count, GetCacheSize and GetItemSizes take no lock: what they return
\* while a goroutine is inside Set can be a view in the middle of the change
\* (a size above maxsize, a Count that differs from the number of keys of the
\* size table), and such a view is returned only while a goroutine holds the
\* mutex; GetLastViewedKey, which takes the lock, reads only states between
\* completed operations.
UnlockedAccessorsSeeMidMutation ==
    [][/\ MidMutation(seen, seen')
            => \E t \in Goroutines : pc[t] \in LockedStatements /\ mux = t
       /\ \A t \in Goroutines :
             Runs(t, {"LastRead"})
                => Structures = serial /\ loc'[t].last = GetLastViewedKey(serial)]_vars

\* the caller was returned a size above maxsize and a Count that is not the
\* number of keys of the size table
UnlockedAccessorsWitness ==
    /\ seen.size > maxsize
    /\ seen.count >= 0 /\ seen.count # seen.items
    /\ \E t \in Goroutines : pc[t] = "asserted"

-----------------------------------------------------------------------------
(* More properties of one caller's cache (Spec) *)

\* the three structures after the three stores of Set, before the eviction
AfterInsert(key, value) ==
    [cache      |-> MapSet(cache, key, value),
     sizes      |-> MapSet(sizes, key, sizeof(value)),
     lastviewed |-> appendLastViewed(lastviewed, key)]

\* C16: Set evicts no more than needed. The evicted keys are the front of the
\* recency order, one after the other; a Set whose size after the insert is
\* at most maxsize (equal included) evicts nothing; after an evicting Set the
\* size plus the size of the key evicted last is above maxsize.
EvictsNoMoreThanNeeded ==
    [][(ret'.op = "Set" /\ ~ret'.err) =>
          LET c1 == AfterInsert(ret'.key, ret'.val)
              n  == Len(c1.lastviewed) - Len(lastviewed')
          IN  /\ n >= 0
              /\ lastviewed' = SubSeq(c1.lastviewed, n + 1, Len(c1.lastviewed))
              /\ DOMAIN cache' = Range(lastviewed')
              /\ DOMAIN sizes' = Range(lastviewed')
              /\ GetCacheSize(c1) <= maxsize => n = 0
              /\ n > 0 => GetCacheSize(Structures') + c1.sizes[c1.lastviewed[n]] > maxsize
      ]_vars

\* a Set that filled the cache to exactly maxsize and evicted nothing
EvictsNoMoreThanNeededWitness ==
    /\ ret.op = "Set" /\ ~ret.err /\ ret.evicted = <<>>
    /\ GetCacheSize(Structures) = maxsize
    /\ Len(lastviewed) >= 2

\* C17: in every state reached through NewAccessCache, Get and Set, the
\* eviction loop never finds c.lastviewed empty while the size is still above
\* maxsize: the early return is not taken, an overwrite with a larger value
\* included.
EarlyReturnNeverTaken == ~ret.early

\* a cached key was overwritten with a larger value and every other key went
EarlyReturnNeverTakenWitness ==
    /\ Evicting /\ ret.had
    /\ lastviewed = <<ret.key>>
    /\ Len(ret.evicted) >= 2

\* C20: a Set never evicts the key it has just stored. After a Set that
\* returned nil the key is cached with the value given and with its estimated
\* size, and it is the last viewed key, whatever had to be evicted; so a cache
\* that holds a key never becomes empty again.
SetKeepsItsKey ==
    [][/\ (ret'.op = "Set" /\ ~ret'.err) =>
             /\ ret'.key \in DOMAIN cache' /\ cache'[ret'.key] = ret'.val
             /\ ret'.key \in DOMAIN sizes' /\ sizes'[ret'.key] = sizeof(ret'.val)
             /\ GetLastViewedKey(Structures') = ret'.key
             /\ ret'.key \notin Range(ret'.evicted)
       /\ cache # <<>> => (cache' # <<>> /\ lastviewed' # <<>>)
      ]_vars

\* a new key was stored and every key cached before had to go
SetKeepsItsKeyWitness ==
    /\ Evicting /\ ~ret.had
    /\ lastviewed = <<ret.key>>
    /\ DOMAIN cache = {ret.key}

-----------------------------------------------------------------------------
(* sizeof on values that nest: one step per call of sizeofInternal *)

\* the depth guard of sizeofInternal
recursionLimit == 1000
\* the longest of the short lists
MaxNodes == 3

\* type Node struct { next *Node }: a *Node with n nodes ahead, 0 the nil
\* pointer. link "": the last node's next is nil; "cycle": the last node's next
\* is the first node; "iface": type Box struct { next interface{} }, the field
\* holding the pointer to the Box itself
PtrVal(n, link) == [kind |-> "ptr", i |-> n, s |-> link]
\* the Node (or Box) itself, passed by value
StructVal(n, link) == [kind |-> "struct", i |-> n, s |-> link]

\* val.IsNil() of a pointer
IsNil(val) == val.i = 0
\* val.Elem() of a pointer that is not nil
Elem(val) == [val EXCEPT !.kind = "struct"]
\* val.Field(0) of the struct, NumField() being 1
Field(val) ==
    CASE val.s = "iface" -> [val EXCEPT !.kind = "iface"]
      [] val.s = "cycle" -> [val EXCEPT !.kind = "ptr"]
      [] OTHER           -> PtrVal(val.i - 1, "")

ListLengths ==
    (0..MaxNodes) \cup
    {recursionLimit \div 2 - 1, recursionLimit \div 2, recursionLimit \div 2 + 1}

\* the arguments of sizeof: numbers, strings, the nil interface, lists by
\* pointer and by value, cyclic lists, a Box that holds itself
Objects ==
    Values \cup {NilVal}
    \cup {PtrVal(n, "") : n \in ListLengths}
    \cup {StructVal(n, "") : n \in ListLengths \ {0}}
    \cup {PtrVal(n, "cycle") : n \in 1..MaxNodes}
    \cup {StructVal(n, "cycle") : n \in 1..MaxNodes}
    \cup {PtrVal(1, "iface"), StructVal(1, "iface")}

InitSize ==
    /\ NewAccessCache(sizeAllocationCap)
    /\ ret = NoCall
    /\ touched = <<>>
    /\ lastSet = <<>>
    /\ scen = -1
    /\ mux = Unlocked
    /\ pc = <<>>
    /\ loc = <<>>
    /\ serial = Structures
    /\ seen = NotSeen
    /\ est \in {[NoEstimate EXCEPT !.obj = o] : o \in Objects}

\* sizeof: sizeofInternal(reflect.ValueOf(objs[i]), false, 0)
CallSizeof ==
    /\ est.status = "idle"
    /\ est' = [est EXCEPT !.val = est.obj, !.fromStruct = FALSE, !.depth = 0,
                          !.sz = 0, !.status = "running"]
    /\ UNCHANGED <<cache, sizes, lastviewed, maxsize, mux, pc, loc, Ghosts, serial, seen>>

\* one call of sizeofInternal: the depth guard, val.Type(), which panics on the
\* zero reflect.Value that reflect.ValueOf(nil) is, the size of the type, and
\* the switch on the kind, which goes on with the element or the field
CallSizeofInternal ==
    LET depth == est.depth + 1
        val   == est.val
        sz    == IF est.fromStruct THEN 0 ELSE typSize(val)
        Return(n) == [est EXCEPT !.depth = depth, !.sz = est.sz + n, !.status = "done"]
        Recurse(v, fs) == [est EXCEPT !.depth = depth, !.sz = est.sz + sz,
                                      !.val = v, !.fromStruct = fs]
    IN  /\ est.status = "running"
        /\ est' = IF depth > recursionLimit \/ val.kind = "nil"
                  THEN [est EXCEPT !.depth = depth, !.status = "panic"]
                  ELSE CASE val.kind = "ptr" ->
                              IF IsNil(val) THEN Return(sz) ELSE Recurse(Elem(val), FALSE)
                         [] val.kind = "struct" -> Recurse(Field(val), TRUE)
                         [] val.kind = "string" ->
                              Return((IF est.fromStruct THEN sz ELSE stringSize) + Len(val.s))
                         [] OTHER -> Return(sz)
        /\ UNCHANGED <<cache, sizes, lastviewed, maxsize, mux, pc, loc, Ghosts, serial, seen>>

NextSize == CallSizeof \/ CallSizeofInternal

SpecSize == InitSize /\ [][NextSize]_vars

\* the object refers to itself
IsCyclic(obj) == obj.kind \in {"ptr", "struct"} /\ obj.s \in {"cycle", "iface"}
\* the levels of nesting of an object that does not refer to itself, the object
\* counted as the first
Levels(obj) ==
    CASE obj.kind = "ptr"    -> 2 * obj.i + 1
      [] obj.kind = "struct" -> 2 * obj.i
      [] OTHER               -> 1

FailsOnlyPastLimit ==
    est.status = "panic" =>
        /\ est.depth = recursionLimit + 1
        /\ IsCyclic(est.obj) \/ Levels(est.obj) > recursionLimit
ReturnsUpToLimit ==
    est.status = "done" =>
        /\ ~IsCyclic(est.obj)
        /\ Levels(est.obj) <= recursionLimit
        /\ est.obj \in Values => est.sz = sizeof(est.obj)

\* C19: sizeof ends on every argument: it fails, as soon as the depth of the
\* recursion passes 1000, on an object that refers to itself or nests more than
\* 1000 levels, and it returns a value without failing on every object of at
\* most 1000 levels.
SizeofFailsOnlyPastLimit ==
    /\ est.depth <= recursionLimit + 1
    /\ FailsOnlyPastLimit
    /\ ReturnsUpToLimit

-----------------------------------------------------------------------------
(* One caller that keeps the map GetItemSizes returned and writes to it *)

\* the values this caller stores
AliasValues == {IntVal(1), StrVal("")}

InitAlias ==
    /\ Init
    /\ scen = -1
    /\ maxsize = sizeAllocationCap

\* sizes := m.GetItemSizes(): the caller keeps what it was returned
CallGetItemSizes ==
    /\ seen.items = -1
    /\ seen' = [seen EXCEPT !.items = Cardinality(DOMAIN GetItemSizes(Structures))]
    /\ UNCHANGED <<cache, sizes, lastviewed, maxsize, mux, pc, loc, Ghosts, serial, est>>

\* a Go map is a reference and GetItemSizes returns c.sizes: the map the
\* caller keeps is the size table, read whenever the caller reads it
Returned == sizes

\* the size table holds the estimated size of every cached value
Intact ==
    /\ DOMAIN sizes = DOMAIN cache
    /\ \A k \in DOMAIN sizes : sizes[k] = sizeof(cache[k])

\* sizes[key] = n by the caller, on the map it was returned; this caller
\* writes to a table that is intact
WriteReturned(key, n) ==
    /\ seen.items # -1
    /\ Intact
    /\ sizes' = MapSet(Returned, key, n)
    /\ ret' = [NoCall EXCEPT !.op = "write", !.key = key]
    /\ UNCHANGED <<cache, lastviewed, maxsize, touched, lastSet, scen, mux, pc, loc,
                   serial, seen, est>>

NextAlias ==
    \/ \E k \in Keys, v \in AliasValues : Set(k, v)
    \/ \E k \in Keys : Get(k)
    \/ CallGetItemSizes
    \/ \E k \in Keys, n \in {0, maxsize} : WriteReturned(k, n)

SpecAlias == InitAlias /\ [][NextAlias]_vars

\* C18: the map GetItemSizes returned is a snapshot or a read-only view: a
\* caller that changes it changes neither the size table nor GetCacheSize(),
\* and a Set that comes later does not alter the map the caller keeps.
ReturnedMapIsNoAlias ==
    [][/\ ret'.op = "write" =>
             /\ GetItemSizes(Structures') = GetItemSizes(Structures)
             /\ GetCacheSize(Structures') = GetCacheSize(Structures)
       /\ (seen.items # -1 /\ ret'.op = "Set") => Returned' = Returned
      ]_vars

=============================================================================
